---- MODULE Spec2Model ----
(***************************************************************************)
(* Model of scripts/candles pattern.py: the candlestick pattern detector   *)
(* (detect_doji, detect_hammer, detect_engulfing, detect_patterns) and the *)
(* command-line entry point main.                                          *)
(*                                                                         *)
(* Prices are whole numbers of ticks.  The detector only subtracts,        *)
(* takes absolute values, compares, and multiplies by a ratio; a ratio is  *)
(* kept as a pair <<num, den>> and  x < r * y  is  x * den < num * y.      *)
(* A DataFrame of normalized columns is the sequence of its rows, each a   *)
(* record with fields O, H, L, C.                                          *)
(***************************************************************************)
EXTENDS Integers, Sequences, FiniteSets, TLC

VARIABLES
    pc,        \* position: "ready"/"done" for a library call; "start",
               \* "loaded", "normalized", "exit" for main
    call,      \* the library function applied and its parameters
    df,        \* the DataFrame handed to the function (rows O,H,L,C)
    ret,       \* what the call returned, or the exception it raised
    argv,      \* main: parsed arguments [output, plot]
    mpf,       \* main: TRUE iff importing mplfinance and plotting succeed
    csv,       \* main: the input file [columns, rows]
    columns,   \* main: column names of the loaded frame
    stdout,    \* main: what was printed to standard output
    stderr,    \* main: what was printed to standard error
    outfile,   \* main: content of the --output file, <<>> while unwritten
    exitCode   \* main: process exit status, NoExit while running

vars == <<pc, call, df, ret, argv, mpf, csv, columns, stdout, stderr, outfile, exitCode>>

----------------------------------------------------------------------------
(* Bounds *)

MaxPrice == 2
MaxRows == 2
MaxCsvRows == 1

Price == 0..MaxPrice
\* High and Low range over the extremes: zero range (H = L), a proper
\* range (H > L) and an inverted one (H < L) all occur.
Wick == {0, MaxPrice}
Candle == [O : Price, H : Wick, L : Wick, C : Price]
Tables == UNION {[1..n -> Candle] : n \in 0..MaxRows}

----------------------------------------------------------------------------
(* Values *)

\* The missing value DataFrame.shift puts in the row it vacates.
NaN == -1

Abs(x) == IF x < 0 THEN -x ELSE x
Max(a, b) == IF a >= b THEN a ELSE b
Min(a, b) == IF a <= b THEN a ELSE b

\* Element-wise comparisons of float columns: any comparison with NaN is False.
Lt(a, b) == a # NaN /\ b # NaN /\ a < b
Gt(a, b) == a # NaN /\ b # NaN /\ a > b
Le(a, b) == a # NaN /\ b # NaN /\ a <= b
Ge(a, b) == a # NaN /\ b # NaN /\ a >= b

Returned(v) == [exc |-> "None", value |-> v]
Raised(e) == [exc |-> e, value |-> <<>>]

----------------------------------------------------------------------------
(* detect_engulfing *)

NaNRow == [O |-> NaN, H |-> NaN, L |-> NaN, C |-> NaN]

\* df.shift(1): row i holds row i-1, the first row holds NaN.
shift_roll(d) == [i \in DOMAIN d |-> IF i = 1 THEN d[Len(d)] ELSE d[i - 1]]
shift(d) == [i \in DOMAIN d |-> IF i = 1 THEN NaNRow ELSE d[i - 1]]

prev_bear(d) == [i \in DOMAIN d |-> Lt(shift(d)[i].C, shift(d)[i].O)]
prev_bull(d) == [i \in DOMAIN d |-> Gt(shift(d)[i].C, shift(d)[i].O)]
curr_bear(d) == [i \in DOMAIN d |-> Lt(d[i].C, d[i].O)]
curr_bull(d) == [i \in DOMAIN d |-> Gt(d[i].C, d[i].O)]

be_mask_strict(d) ==
    [i \in DOMAIN d |->
        /\ prev_bear(d)[i] /\ curr_bull(d)[i]
        /\ Lt(d[i].O, shift(d)[i].C) /\ Ge(d[i].C, shift(d)[i].O)]
be_mask(d) ==
    [i \in DOMAIN d |->
        /\ prev_bear(d)[i] /\ curr_bull(d)[i]
        /\ Le(d[i].O, shift(d)[i].C) /\ Ge(d[i].C, shift(d)[i].O)]

se_mask_pasted(d) ==
    [i \in DOMAIN d |->
        /\ prev_bear(d)[i] /\ curr_bull(d)[i]
        /\ Le(d[i].O, shift(d)[i].C) /\ Ge(d[i].C, shift(d)[i].O)]
se_mask(d) ==
    [i \in DOMAIN d |->
        /\ prev_bull(d)[i] /\ curr_bear(d)[i]
        /\ Ge(d[i].O, shift(d)[i].C) /\ Le(d[i].C, shift(d)[i].O)]

\* out starts as '' everywhere; the bullish label is assigned first, the
\* bearish label second (and would overwrite it).
detect_engulfing(d) ==
    LET out0 == [i \in DOMAIN d |-> ""]
        out1 == [i \in DOMAIN d |->
                    IF be_mask(d)[i] THEN "Bullish Engulfing" ELSE out0[i]]
        out2 == [i \in DOMAIN d |->
                    IF se_mask(d)[i] THEN "Bearish Engulfing" ELSE out1[i]]
    IN  Returned(out2)

----------------------------------------------------------------------------
(* detect_doji *)

\* pd.NA, the value Series.replace(0, pd.NA) writes; a numeric column that
\* receives it becomes an object column.
NA == -2

Thresholds == {<<1, 10>>, <<1, 2>>}
DefaultThreshold == <<1, 10>>
DefaultBodyToRange == <<1, 4>>
DefaultLowerWickMin == <<2, 1>>

body(d) == [i \in DOMAIN d |-> Abs(d[i].O - d[i].C)]

\* (df["H"] - df["L"]).abs().replace(0, pd.NA)
rng(d) ==
    [i \in DOMAIN d |->
        IF Abs(d[i].H - d[i].L) = 0 THEN NA ELSE Abs(d[i].H - d[i].L)]

\* left < ratio * right, element-wise, for a float column left.  ratio * NA
\* is NA, and a float column compared with an object column that holds NA
\* raises TypeError ("boolean value of NA is ambiguous"): the comparison is
\* evaluated by numpy, which needs the truth value of every element.
SeriesLtScaled(left, ratio, right) ==
    IF \E i \in DOMAIN right : right[i] = NA
    THEN Raised("TypeError")
    ELSE Returned([i \in DOMAIN left |-> left[i] * ratio[2] < ratio[1] * right[i]])

\* is_doji.fillna(False) leaves a boolean column as it is.
detect_doji(d, threshold) == SeriesLtScaled(body(d), threshold, rng(d))

----------------------------------------------------------------------------
(* detect_hammer *)

upper_wick(d) == [i \in DOMAIN d |-> Abs(d[i].H - Max(d[i].O, d[i].C))]

\* ["O", "C"].min(axis=1): the attribute min is looked up on a Python list,
\* which has none, whatever the frame holds.
ListMin == Raised("AttributeError")

\* body and upper_wick are computed, then the lower_wick expression raises;
\* the statements after it (rng, small_body, strong_lower, small_upper and
\* the return) are never executed.
detect_hammer(d, body_to_range, lower_wick_min) ==
    LET b == body(d)
        u == upper_wick(d)
        lower_wick == ListMin
    IN  lower_wick

----------------------------------------------------------------------------
(* detect_patterns *)

RECURSIVE Join(_, _)
\* sep.join(parts)
Join(sep, parts) ==
    IF parts = <<>> THEN ""
    ELSE IF Len(parts) = 1 THEN parts[1]
    ELSE parts[1] \o sep \o Join(sep, Tail(parts))

_combine(row) ==
    LET parts0 == <<>>
        parts1 == IF row.Doji THEN Append(parts0, "Doji") ELSE parts0
        parts2 == IF row.HammerLike THEN Append(parts1, "HammerLike") ELSE parts1
        parts3 == IF row.Engulfing # "" THEN Append(parts2, row.Engulfing) ELSE parts2
    IN  Join(", ", parts3)

\* df2 is a copy of df; the three detectors run in the order Doji,
\* HammerLike, Engulfing and the first exception ends the call.
detect_patterns(d) ==
    LET doji == detect_doji(d, DefaultThreshold)
        hammer == detect_hammer(d, DefaultBodyToRange, DefaultLowerWickMin)
        engulfing == detect_engulfing(d)
        df2 == [i \in DOMAIN d |->
                  [O |-> d[i].O, H |-> d[i].H, L |-> d[i].L, C |-> d[i].C,
                   Doji |-> doji.value[i],
                   HammerLike |-> hammer.value[i],
                   Engulfing |-> engulfing.value[i]]]
    IN  IF doji.exc # "None" THEN doji
        ELSE IF hammer.exc # "None" THEN hammer
        ELSE IF engulfing.exc # "None" THEN engulfing
        ELSE Returned([i \in DOMAIN d |->
                  [O |-> df2[i].O, H |-> df2[i].H, L |-> df2[i].L, C |-> df2[i].C,
                   Doji |-> df2[i].Doji,
                   HammerLike |-> df2[i].HammerLike,
                   Engulfing |-> df2[i].Engulfing,
                   Pattern |-> _combine(df2[i])]])

\* Columns of the frame detect_patterns returns, given those of its input.
PatternColumns(cols) == cols \o <<"Doji", "HammerLike", "Engulfing", "Pattern">>


----------------------------------------------------------------------------
(* _normalize_cols *)

ColNames == {"Date", "Open", "open", "HIGH", "Low", "close"}

\* str.lower on the column names that occur.
lower(c) ==
    CASE c = "Date" -> "date"
      [] c = "Open" -> "open"
      [] c = "open" -> "open"
      [] c = "HIGH" -> "high"
      [] c = "Low" -> "low"
      [] c = "close" -> "close"
      [] OTHER -> c

\* name[0].upper() for the four required names.
Initial(name) ==
    CASE name = "open" -> "O"
      [] name = "high" -> "H"
      [] name = "low" -> "L"
      [] name = "close" -> "C"

Required == <<"open", "high", "low", "close">>
RequiredButClose == <<"open", "high", "low">>

\* name in cols, for cols = {c.lower(): c for c in df.columns}
InCols(header, name) == \E i \in DOMAIN header : lower(header[i]) = name

\* Position of cols[name]: of the columns that lower to name, the dict
\* comprehension keeps the last.
ColsIndex(header, name) ==
    CHOOSE i \in DOMAIN header :
        /\ lower(header[i]) = name
        /\ \A j \in DOMAIN header : j > i => lower(header[j]) # name

\* The loop over the names in `required` raises KeyError at the first one
\* that is absent; otherwise the matched columns are renamed O, H, L, C.
NormalizeOver(required, header) ==
    LET missing == {k \in DOMAIN required : ~InCols(header, required[k])}
        first == CHOOSE k \in missing : \A m \in missing : k <= m
        renamed == [i \in DOMAIN header |->
                      IF \E k \in DOMAIN required : ColsIndex(header, required[k]) = i
                      THEN Initial(lower(header[i]))
                      ELSE header[i]]
    IN  IF missing # {}
        THEN [exc |-> "KeyError", value |-> <<required[first]>>]
        ELSE Returned(renamed)

_normalize_cols_but_close(header) == NormalizeOver(RequiredButClose, header)
_normalize_cols(header) == NormalizeOver(Required, header)

----------------------------------------------------------------------------
(* Library calls: a function of the module applied to a frame *)

NoCall == [fn |-> "", params |-> <<>>]
NoRet == [exc |-> "", value |-> <<>>]
NoArgv == [output |-> FALSE, plot |-> FALSE]
NoCsv == [columns |-> <<>>, rows |-> <<>>]
Normalized == <<"O", "H", "L", "C">>

InitDetect ==
    /\ pc = "ready"
    /\ call = NoCall
    /\ df \in Tables
    /\ ret = NoRet
    /\ argv = NoArgv
    /\ mpf = FALSE
    /\ csv = NoCsv
    /\ columns = Normalized
    /\ stdout = <<>>
    /\ stderr = <<>>
    /\ outfile = <<>>
    /\ exitCode = <<>>

mainVars == <<argv, mpf, csv, columns, stdout, stderr, outfile, exitCode>>

CallDetectDoji ==
    /\ pc = "ready"
    /\ \E threshold \in Thresholds :
          /\ call' = [fn |-> "detect_doji", params |-> <<threshold>>]
          /\ ret' = detect_doji(df, threshold)
    /\ pc' = "done"
    /\ UNCHANGED <<df, mainVars>>

CallDetectHammer ==
    /\ pc = "ready"
    /\ call' = [fn |-> "detect_hammer",
                params |-> <<DefaultBodyToRange, DefaultLowerWickMin>>]
    /\ ret' = detect_hammer(df, DefaultBodyToRange, DefaultLowerWickMin)
    /\ pc' = "done"
    /\ UNCHANGED <<df, mainVars>>

CallDetectEngulfing ==
    /\ pc = "ready"
    /\ call' = [fn |-> "detect_engulfing", params |-> <<>>]
    /\ ret' = detect_engulfing(df)
    /\ pc' = "done"
    /\ UNCHANGED <<df, mainVars>>

CallDetectPatterns ==
    /\ pc = "ready"
    /\ call' = [fn |-> "detect_patterns", params |-> <<>>]
    /\ ret' = detect_patterns(df)
    /\ pc' = "done"
    /\ UNCHANGED <<df, mainVars>>

NextDetect ==
    \/ CallDetectDoji
    \/ CallDetectHammer
    \/ CallDetectEngulfing
    \/ CallDetectPatterns

SpecDetect == InitDetect /\ [][NextDetect]_vars

----------------------------------------------------------------------------
(* main *)

ExitSuccess == 0
ExitUncaught == 1
ExitMissingColumn == 2

RECURSIVE Injective(_, _)
\* Sequences of n distinct names drawn from S.
Injective(S, n) ==
    IF n = 0 THEN {<<>>}
    ELSE UNION {{Append(h, c) : c \in S \ {h[i] : i \in DOMAIN h}} :
                  h \in Injective(S, n - 1)}

Headers == UNION {Injective(ColNames, n) : n \in 0..Cardinality(ColNames)}

\* The flat candle and the bearish and bullish candles of the spec's
\* scenarios 1 and 3, in tenths.
CsvCandles ==
    { [O |-> 100, H |-> 100, L |-> 100, C |-> 100],
      [O |-> 120, H |-> 122, L |-> 100, C |-> 105],
      [O |-> 102, H |-> 125, L |-> 100, C |-> 123] }
CsvTables == UNION {[1..n -> CsvCandles] : n \in 0..MaxCsvRows}

Init ==
    /\ pc = "start"
    /\ call = [fn |-> "main", params |-> <<>>]
    /\ argv \in [output : BOOLEAN, plot : BOOLEAN]
    /\ mpf \in BOOLEAN
    /\ csv \in [columns : Headers, rows : CsvTables]
    /\ df = <<>>
    /\ columns = <<>>
    /\ ret = NoRet
    /\ stdout = <<>>
    /\ stderr = <<>>
    /\ outfile = <<>>
    /\ exitCode = <<>>

\* df = pd.read_csv(args.input)
ReadCsv ==
    /\ pc = "start"
    /\ pc' = "loaded"
    /\ df' = csv.rows
    /\ columns' = csv.columns
    /\ UNCHANGED <<call, ret, argv, mpf, csv, stdout, stderr, outfile, exitCode>>

\* _normalize_cols raises: the message goes to stderr and main returns 2.
NormalizeRaises ==
    /\ pc = "loaded"
    /\ _normalize_cols(columns).exc = "KeyError"
    /\ stderr' = Append(stderr, [text |-> "Input CSV must contain column",
                                 column |-> _normalize_cols(columns).value[1]])
    /\ exitCode' = <<ExitMissingColumn>>
    /\ pc' = "exit"
    /\ UNCHANGED <<call, df, ret, argv, mpf, csv, columns, stdout, outfile>>

NormalizeReturns ==
    /\ pc = "loaded"
    /\ _normalize_cols(columns).exc = "None"
    /\ columns' = _normalize_cols(columns).value
    /\ pc' = "normalized"
    /\ UNCHANGED <<call, df, ret, argv, mpf, csv, stdout, stderr, outfile, exitCode>>

\* out.to_csv(index=False): the header line and the rows.
to_csv(cols, rows) == [header |-> cols, rows |-> rows]

\* From out = detect_patterns(df) to the return of main.  An exception of
\* detect_patterns is not caught: the interpreter prints the traceback and
\* the process ends with status 1, before anything is written.  Otherwise
\* the detections go to the --output file (and a note to stdout) or to
\* stdout, a plot is attempted when asked for, its failure is printed to
\* stderr, and main returns 0.
DetectAndEmit ==
    /\ pc = "normalized"
    /\ LET out == detect_patterns(df)
           text == to_csv(PatternColumns(columns), out.value)
           written == IF argv.output
                      THEN <<[text |-> "Wrote detections to", file |-> "output"]>>
                      ELSE <<text>>
       IN  /\ ret' = out
           /\ IF out.exc # "None"
              THEN /\ stderr' = Append(stderr, [text |-> "Traceback", column |-> out.exc])
                   /\ exitCode' = <<ExitUncaught>>
                   /\ UNCHANGED <<stdout, outfile>>
              ELSE /\ outfile' = IF argv.output THEN <<text>> ELSE outfile
                   /\ stdout' = stdout \o written
                   /\ stderr' = IF argv.plot /\ ~mpf
                                THEN Append(stderr, [text |-> "Plot failed (mplfinance required):",
                                                     column |-> ""])
                                ELSE stderr
                   /\ exitCode' = <<ExitSuccess>>
    /\ pc' = "exit"
    /\ UNCHANGED <<call, df, argv, mpf, csv, columns>>

Next ==
    \/ ReadCsv
    \/ NormalizeRaises
    \/ NormalizeReturns
    \/ DetectAndEmit

Spec == Init /\ [][Next]_vars

----------------------------------------------------------------------------
(* Properties of detect_engulfing, under SpecDetect *)

Called(name) == pc = "done" /\ call.fn = name

\* C1: for every row with a predecessor, detect_engulfing gives 'Bullish
\* Engulfing' iff prev is bearish, curr is bullish, curr.open <= prev.close
\* and curr.close >= prev.open; 'Bearish Engulfing' iff prev is bullish,
\* curr is bearish, curr.open >= prev.close and curr.close <= prev.open;
\* and '' otherwise, in particular when either candle is flat.
C1_EngulfingRule ==
    Called("detect_engulfing") =>
        /\ ret.exc = "None"
        /\ DOMAIN ret.value = DOMAIN df
        /\ \A i \in DOMAIN df : i > 1 =>
              LET prev == df[i - 1]
                  curr == df[i]
                  bullish == /\ prev.C < prev.O /\ curr.C > curr.O
                             /\ curr.O <= prev.C /\ curr.C >= prev.O
                  bearish == /\ prev.C > prev.O /\ curr.C < curr.O
                             /\ curr.O >= prev.C /\ curr.C <= prev.O
              IN  /\ ret.value[i] = "Bullish Engulfing" <=> bullish
                  /\ ret.value[i] = "Bearish Engulfing" <=> bearish
                  /\ ret.value[i] = "" <=> ~bullish /\ ~bearish
                  /\ (prev.O = prev.C \/ curr.O = curr.C) => ret.value[i] = ""

\* A bullish engulfing whose open touches the previous close.
C1_Witness ==
    /\ Called("detect_engulfing")
    /\ Len(df) = 2
    /\ df[1].C < df[1].O
    /\ df[2].O = df[1].C
    /\ df[2].C > df[1].O
    /\ ret.value[2] = "Bullish Engulfing"

\* C9: the first record of a non-empty sequence has Engulfing = '',
\* whatever the candles are.
C9_FirstRecordEmpty ==
    (Called("detect_engulfing") /\ Len(df) >= 1) => ret.value[1] = ""

\* The first candle is bullish and its body contains the bearish body of
\* the last one: only the missing predecessor keeps it unlabelled.
C9_Witness ==
    /\ Called("detect_engulfing")
    /\ Len(df) = 2
    /\ df[2].C < df[2].O
    /\ df[1].C > df[1].O
    /\ df[1].O <= df[2].C
    /\ df[1].C >= df[2].O
    /\ ret.value[1] = ""

\* C10: no record satisfies both the bullish and the bearish condition, so
\* the value does not depend on the order of the two assignments.
C10_MutuallyExclusive ==
    Called("detect_engulfing") =>
        \A i \in DOMAIN df :
            /\ ~(be_mask(df)[i] /\ se_mask(df)[i])
            /\ ret.value[i] = (IF se_mask(df)[i] THEN "Bearish Engulfing"
                               ELSE IF be_mask(df)[i] THEN "Bullish Engulfing"
                               ELSE "")
            /\ ret.value[i] = (IF be_mask(df)[i] THEN "Bullish Engulfing"
                               ELSE IF se_mask(df)[i] THEN "Bearish Engulfing"
                               ELSE "")

\* A bearish engulfing of a body with the same two ends: every inequality
\* of both conditions is at its boundary.
C10_Witness ==
    /\ Called("detect_engulfing")
    /\ Len(df) = 2
    /\ df[1].C > df[1].O
    /\ df[2].O = df[1].C
    /\ df[2].C = df[1].O
    /\ se_mask(df)[2]
    /\ ret.value[2] = "Bearish Engulfing"

----------------------------------------------------------------------------
(* The contracts of detect_hammer, detect_doji and detect_patterns, which *)
(* the code does not meet, under SpecDetect                               *)

\* C2: detect_hammer is true for a candle iff range > 0, body <=
\* bodyToRange * range, lowerWick >= lowerWickMin * max(body, 1e-9) and
\* upperWick <= body * lowerWickMin; it is false when high = low.
C2_HammerRule ==
    Called("detect_hammer") =>
        /\ ret.exc = "None"
        /\ DOMAIN ret.value = DOMAIN df
        /\ \A i \in DOMAIN df :
              LET c == df[i]
                  bodyToRange == call.params[1]
                  lowerWickMin == call.params[2]
                  b == Abs(c.O - c.C)
                  range == Abs(c.H - c.L)
                  upperWick == c.H - Max(c.O, c.C)
                  lowerWick == Min(c.O, c.C) - c.L
                  \* max(body, 1e-9) with whole ticks
                  longLower == IF b = 0 THEN lowerWick > 0
                               ELSE lowerWick * lowerWickMin[2] >= lowerWickMin[1] * b
              IN  ret.value[i] <=>
                      /\ range > 0
                      /\ b * bodyToRange[2] <= bodyToRange[1] * range
                      /\ longLower
                      /\ upperWick * lowerWickMin[2] <= b * lowerWickMin[1]

\* C3: detect_doji is true for a candle iff range > 0 and body < threshold *
\* range; it is false, and nothing is raised, when high = low.
C3_DojiRule ==
    Called("detect_doji") =>
        /\ ret.exc = "None"
        /\ DOMAIN ret.value = DOMAIN df
        /\ \A i \in DOMAIN df :
              LET c == df[i]
                  threshold == call.params[1]
                  range == Abs(c.H - c.L)
              IN  ret.value[i] <=>
                      /\ range > 0
                      /\ Abs(c.O - c.C) * threshold[2] < threshold[1] * range

\* C4: detect_patterns completes without raising for every sequence of
\* numeric candles, degenerate or malformed ones included, and classifies
\* every row.
C4_NeverRaises ==
    Called("detect_patterns") =>
        /\ ret.exc = "None"
        /\ DOMAIN ret.value = DOMAIN df

\* The label of three rule outputs, written out case by case.
Label(doji, hammerLike, engulfing) ==
    CASE doji /\ hammerLike /\ engulfing = "Bullish Engulfing" ->
             "Doji, HammerLike, Bullish Engulfing"
      [] doji /\ hammerLike /\ engulfing = "Bearish Engulfing" ->
             "Doji, HammerLike, Bearish Engulfing"
      [] doji /\ hammerLike /\ engulfing = "" -> "Doji, HammerLike"
      [] doji /\ ~hammerLike /\ engulfing = "Bullish Engulfing" ->
             "Doji, Bullish Engulfing"
      [] doji /\ ~hammerLike /\ engulfing = "Bearish Engulfing" ->
             "Doji, Bearish Engulfing"
      [] doji /\ ~hammerLike /\ engulfing = "" -> "Doji"
      [] ~doji /\ hammerLike /\ engulfing = "Bullish Engulfing" ->
             "HammerLike, Bullish Engulfing"
      [] ~doji /\ hammerLike /\ engulfing = "Bearish Engulfing" ->
             "HammerLike, Bearish Engulfing"
      [] ~doji /\ hammerLike /\ engulfing = "" -> "HammerLike"
      [] OTHER -> engulfing

\* C5: the Pattern label of every record detect_patterns produces is the
\* names of the tags that fired joined by ', ' in the order Doji,
\* HammerLike, Engulfing value, and is '' iff no tag fired.
C5_PatternLabel ==
    Called("detect_patterns") =>
        /\ ret.exc = "None"
        /\ \A i \in DOMAIN df :
              LET r == ret.value[i]
              IN  /\ r.Pattern = Label(r.Doji, r.HammerLike, r.Engulfing)
                  /\ r.Pattern = "" <=>
                        (~r.Doji /\ ~r.HammerLike /\ r.Engulfing = "")

\* C7: the output of detect_patterns has the rows of the input, in order,
\* with their columns unchanged and Doji, HammerLike, Engulfing, Pattern
\* appended in that order.
C7_RowsPreserved ==
    Called("detect_patterns") =>
        /\ ret.exc = "None"
        /\ Len(ret.value) = Len(df)
        /\ \A i \in DOMAIN df :
              /\ DOMAIN ret.value[i] =
                    {"O", "H", "L", "C", "Doji", "HammerLike", "Engulfing", "Pattern"}
              /\ [f \in {"O", "H", "L", "C"} |-> ret.value[i][f]] = df[i]
        /\ PatternColumns(columns) =
              <<"O", "H", "L", "C", "Doji", "HammerLike", "Engulfing", "Pattern">>

----------------------------------------------------------------------------
(* Properties of main, under Spec *)

\* The columns of the input file that match a required name, whatever
\* their case.
Spellings(name) ==
    CASE name = "open" -> {"Open", "open"}
      [] name = "high" -> {"HIGH"}
      [] name = "low" -> {"Low"}
      [] name = "close" -> {"close"}

Absent(name) == \A i \in DOMAIN csv.columns : csv.columns[i] \notin Spellings(name)
SomeAbsent == \E name \in {"open", "high", "low", "close"} : Absent(name)

\* C6: when a required column is absent from the input, main reports a
\* missing column on stderr, returns a code other than the success code,
\* and never reaches detection or output: nothing is written to the
\* output file or to stdout.
C6_MissingColumn ==
    SomeAbsent =>
        /\ pc \in {"start", "loaded", "exit"}
        /\ ret = NoRet
        /\ stdout = <<>>
        /\ outfile = <<>>
        /\ pc = "exit" =>
              /\ exitCode = <<ExitMissingColumn>>
              /\ exitCode # <<ExitSuccess>>
              /\ Len(stderr) = 1
              /\ stderr[1].text = "Input CSV must contain column"
              /\ Absent(stderr[1].column)

\* Only close is missing; open and high are spelled in another case.
C6_Witness ==
    /\ pc = "exit"
    /\ Absent("close")
    /\ ~Absent("open") /\ ~Absent("high") /\ ~Absent("low")
    /\ exitCode = <<ExitMissingColumn>>
    /\ stderr[1].column = "close"

\* C8: with the plot flag set and chart rendering failing, the failure is
\* reported as a warning, the program does not abort, the detections have
\* been written in full, and the exit code is that of a run without the
\* flag (success).
C8_PlotFailureHarmless ==
    (pc = "exit" /\ ~SomeAbsent /\ argv.plot /\ ~mpf) =>
        /\ exitCode = <<ExitSuccess>>
        /\ ret.exc = "None"
        /\ \E k \in DOMAIN stderr : stderr[k].text = "Plot failed (mplfinance required):"
        /\ IF argv.output
           THEN outfile = <<to_csv(PatternColumns(columns), ret.value)>>
           ELSE stdout = <<to_csv(PatternColumns(columns), ret.value)>>


====
